---- MODULE Spec2Model ----
(***************************************************************************)
(* Model of the result cache (src/cache.py) of the soil matching service   *)
(* and of the places of the /ask handler (src/app.py) that use it.         *)
(*                                                                         *)
(* The store of SimpleCache is a Python dict: it keeps insertion order,    *)
(* and overwriting a key keeps the key's position.  It is modelled as a    *)
(* sequence of entries [key, value, timestamp] without duplicate keys.     *)
(* time.time() is the variable now; one call of a cache method reads one   *)
(* clock value, and time passes between calls (Tick).                      *)
(***************************************************************************)
EXTENDS Integers, Sequences, FiniteSets, TLC

VARIABLES
    cache,      \* SimpleCache.cache: sequence of [key, value, timestamp]
    max_size,   \* SimpleCache.max_size
    useCache,   \* config.USE_CACHE, read at every get and set
    now,        \* time.time()
    last,       \* the call that ran last, with what its sweeps did
    ret,        \* what the last call returned
    setAt,      \* per key: the time of the latest stored set, or -1
    thr,        \* per request handler thread: its position in get or set
    req,        \* the /ask request being handled, between its two steps
    rk          \* the call of the matching engine or of the key derivation
                \* in progress: its arguments, locals and result

vars == <<cache, max_size, useCache, now, last, ret, setAt, thr, req, rk>>

(***************************************************************************)
(* Bounds of the model.                                                    *)
(***************************************************************************)
MaxTime == 2        \* the clock runs 0..MaxTime
Duration == 1       \* SimpleCache.duration (config.CACHE_DURATION, scaled)
MaxSize == 2        \* SimpleCache.max_size (config.CACHE_SIZE, scaled)

\* the keys the callers of Spec use
Keys == {1, 2, 3}
Payload(i) == [kind |-> "value", id |-> i]
Values == {Payload(1), Payload(2)}

\* Python's None: what get returns for a miss and what set returns.
None == [kind |-> "None"]

Max(a, b) == IF a >= b THEN a ELSE b
Min(a, b) == IF a <= b THEN a ELSE b

(***************************************************************************)
(* The dict operations the cache uses.                                     *)
(***************************************************************************)
KeysOf(c) == {c[i].key : i \in 1..Len(c)}

\* key in self.cache
Has(c, k) == k \in KeysOf(c)

\* self.cache[key]
Item(c, k) == c[CHOOSE i \in 1..Len(c) : c[i].key = k]

\* del self.cache[key]
Del(c, k) == SelectSeq(c, LAMBDA e : e.key # k)

\* an insertion that keeps the entry of a key that is already stored
PutIfAbsent(c, k, v, t) ==
    IF Has(c, k) THEN c
    ELSE Append(c, [key |-> k, value |-> v, timestamp |-> t])

\* self.cache[key] = {'value': value, 'timestamp': t}
Put(c, k, v, t) ==
    LET e == [key |-> k, value |-> v, timestamp |-> t]
    IN  IF Has(c, k)
        THEN [i \in 1..Len(c) |-> IF c[i].key = k THEN e ELSE c[i]]
        ELSE Append(c, e)

\* _is_expired with the comparison turned into >=
IsExpiredAtDuration(timestamp, t) == t - timestamp >= Duration

\* SimpleCache._is_expired
IsExpired(timestamp, t) == t - timestamp > Duration

\* SimpleCache._cleanup_expired
CleanupExpired(c, t) ==
    SelectSeq(c, LAMBDA e : ~(t - e.timestamp > Duration))

\* sorted(items, key=timestamp): Python's sort is stable
RECURSIVE InsertSorted(_, _)
InsertSorted(s, e) ==
    IF s = <<>> THEN <<e>>
    ELSE IF s[Len(s)].timestamp <= e.timestamp THEN Append(s, e)
    ELSE Append(InsertSorted(SubSeq(s, 1, Len(s) - 1), e), s[Len(s)])

RECURSIVE SortedItems(_)
SortedItems(c) ==
    IF c = <<>> THEN <<>>
    ELSE InsertSorted(SortedItems(SubSeq(c, 1, Len(c) - 1)), c[Len(c)])

\* remove_count without the floor of one entry
RemoveCountFifth(n) == n \div 5

\* remove_count = max(1, len(sorted_items) // 5)
RemoveCount(n) == Max(1, n \div 5)

\* the entries sorted_items[:remove_count] of _cleanup_oldest, as a set
OldestItems(c, m) ==
    IF Len(c) >= m
    THEN LET s == SortedItems(c)
         IN  {s[i] : i \in 1..Min(RemoveCount(Len(s)), Len(s))}
    ELSE {}

\* _cleanup_oldest that sweeps only above the maximum (> for >=)
CleanupOldestAbove(c, m) ==
    IF Len(c) > m
    THEN LET gone == {e.key : e \in OldestItems(c, m)}
         IN  SelectSeq(c, LAMBDA e : e.key \notin gone)
    ELSE c

\* SimpleCache._cleanup_oldest
CleanupOldest(c, m) ==
    LET gone == {e.key : e \in OldestItems(c, m)}
    IN  SelectSeq(c, LAMBDA e : e.key \notin gone)

\* get that forgets the configuration switch
GetValueAlways(c, k, t, enabled) ==
    IF Has(c, k) /\ ~(t - Item(c, k).timestamp > Duration)
    THEN Item(c, k).value
    ELSE None

\* SimpleCache.get: the value returned
\* a get that reports every lookup as a miss
GetValueNever(c, k, t, enabled) == None

GetValue(c, k, t, enabled) ==
    IF ~enabled THEN None
    ELSE IF Has(c, k) /\ ~IsExpired(Item(c, k).timestamp, t)
         THEN Item(c, k).value
         ELSE None

\* get that refreshes the timestamp of the entry it returns
GetStoreTouch(c, k, t, enabled) ==
    IF ~enabled THEN c
    ELSE IF Has(c, k) /\ (t - Item(c, k).timestamp > Duration)
         THEN Del(c, k)
         ELSE IF Has(c, k) THEN Put(c, k, Item(c, k).value, t) ELSE c

\* SimpleCache.get: the store it leaves
GetStore(c, k, t, enabled) ==
    IF ~enabled THEN c
    ELSE IF Has(c, k) /\ IsExpired(Item(c, k).timestamp, t)
         THEN Del(c, k)
         ELSE c

\* set that leaves out the TTL sweep
SetStoreNoTtl(c, m, k, v, t, enabled) ==
    IF ~enabled THEN c
    ELSE Put(CleanupOldest(c, m), k, v, t)

\* set that runs the capacity sweep before the TTL sweep
SetStoreOldestFirst(c, m, k, v, t, enabled) ==
    IF ~enabled THEN c
    ELSE Put(CleanupExpired(CleanupOldest(c, m), t), k, v, t)

\* SimpleCache.set: the store it leaves
SetStore(c, m, k, v, t, enabled) ==
    IF ~enabled THEN c
    ELSE Put(CleanupOldest(CleanupExpired(c, t), m), k, v, t)

\* what the sweeps of one set did: the TTL sweep purged `purged` entries and
\* left n, and the capacity sweep removed the entries in `removed`
SetSweeps(c, m, t, enabled) ==
    IF ~enabled THEN [n |-> 0, purged |-> 0, removed |-> {}]
    ELSE [n |-> Len(CleanupExpired(c, t)),
          purged |-> Len(c) - Len(CleanupExpired(c, t)),
          removed |-> OldestItems(CleanupExpired(c, t), m)]

NoSweeps == [n |-> 0, purged |-> 0, removed |-> {}]

\* the record of a call: dropped tells that its lookup deleted an expired entry
Call(op, k, v, sw, dropped) ==
    [op |-> op, key |-> k, val |-> v, n |-> sw.n, purged |-> sw.purged,
     removed |-> sw.removed, dropped |-> dropped]

\* no handler thread is inside a cache call
NoThreads == <<>>

\* no /ask request is between its interpretation and its matching step
NoRequest == [pc |-> "idle"]

\* no call of the matching engine in progress
NoCall == [pc |-> "none"]

(***************************************************************************)
(* The calls.                                                              *)
(***************************************************************************)
Init ==
    /\ cache = <<>>
    /\ max_size = MaxSize
    /\ useCache = TRUE
    /\ now = 0
    /\ last = Call("init", 0, None, NoSweeps, FALSE)
    /\ ret = None
    /\ setAt = [k \in Keys |-> -1]
    /\ thr = NoThreads
    /\ req = NoRequest
    /\ rk = NoCall

Get(k) ==
    /\ ret' = GetValue(cache, k, now, useCache)
    /\ cache' = GetStore(cache, k, now, useCache)
    /\ last' = Call("get", k, None, NoSweeps,
                 GetStore(cache, k, now, useCache) # cache)
    /\ UNCHANGED <<max_size, useCache, now, setAt, thr, req, rk>>

Set(k, v) ==
    /\ cache' = SetStore(cache, max_size, k, v, now, useCache)
    /\ ret' = None
    /\ last' = Call("set", k, v, SetSweeps(cache, max_size, now, useCache), FALSE)
    /\ setAt' = IF useCache THEN [setAt EXCEPT ![k] = now] ELSE setAt
    /\ UNCHANGED <<max_size, useCache, now, thr, req, rk>>

\* SimpleCache.get_or_set, func returning v
GetOrSet(k, v) ==
    LET cached_value == GetValue(cache, k, now, useCache)
        c1 == GetStore(cache, k, now, useCache)
    IN  IF cached_value # None
        THEN /\ ret' = cached_value
             /\ cache' = c1
             /\ last' = Call("get_or_set", k, v, NoSweeps, FALSE)
             /\ UNCHANGED <<max_size, useCache, now, setAt, thr, req, rk>>
        ELSE /\ ret' = v
             /\ cache' = SetStore(c1, max_size, k, v, now, useCache)
             /\ last' = Call("get_or_set", k, v,
                             SetSweeps(c1, max_size, now, useCache), c1 # cache)
             /\ setAt' = IF useCache THEN [setAt EXCEPT ![k] = now] ELSE setAt
             /\ UNCHANGED <<max_size, useCache, now, thr, req, rk>>

\* SimpleCache.clear
Clear ==
    /\ cache' = <<>>
    /\ ret' = None
    /\ last' = Call("clear", 0, None, NoSweeps, FALSE)
    /\ UNCHANGED <<max_size, useCache, now, setAt, thr, req, rk>>

\* time passes between two calls
Tick ==
    /\ now < MaxTime
    /\ now' = now + 1
    /\ ret' = None
    /\ last' = Call("tick", 0, None, NoSweeps, FALSE)
    /\ UNCHANGED <<cache, max_size, useCache, setAt, thr, req, rk>>

\* the configuration attribute USE_CACHE is switched
SetUseCache(b) ==
    /\ useCache # b
    /\ useCache' = b
    /\ ret' = None
    /\ last' = Call("config", 0, None, NoSweeps, FALSE)
    /\ UNCHANGED <<cache, max_size, now, setAt, thr, req, rk>>

Next ==
    \/ \E k \in Keys : Get(k)
    \/ \E k \in Keys, v \in Values : Set(k, v)
    \/ \E k \in Keys, v \in Values : GetOrSet(k, v)
    \/ Clear
    \/ Tick
    \/ \E b \in BOOLEAN : SetUseCache(b)

Spec == Init /\ [][Next]_vars

(***************************************************************************)
(* A large store: the cache of a service whose requests all arrive with    *)
(* keys that are not in the store (new texts).                             *)
(***************************************************************************)
BigSize == 10       \* SimpleCache.max_size of the large store

FillKeys == 1..(BigSize + 1)

InitFill ==
    /\ cache = <<>>
    /\ max_size = BigSize
    /\ useCache = TRUE
    /\ now = 0
    /\ last = Call("init", 0, None, NoSweeps, FALSE)
    /\ ret = None
    /\ setAt = [k \in Keys |-> -1]
    /\ thr = NoThreads
    /\ req = NoRequest
    /\ rk = NoCall

\* the smallest key that is not in the store
FreshKey(c) == CHOOSE k \in FillKeys \ KeysOf(c) :
                   \A j \in FillKeys \ KeysOf(c) : k <= j

\* set for a key that is not in the store
SetNew ==
    /\ cache' = SetStore(cache, max_size, FreshKey(cache), Payload(1), now, useCache)
    /\ ret' = None
    /\ last' = Call("set", FreshKey(cache), Payload(1),
                    SetSweeps(cache, max_size, now, useCache), FALSE)
    /\ UNCHANGED <<max_size, useCache, now, setAt, thr, req, rk>>

NextFill ==
    \/ SetNew
    \/ Tick

\* the small store under every call, or the large store under sets of new keys
NextSweep ==
    \/ max_size = MaxSize /\ Next
    \/ max_size = BigSize /\ NextFill

SpecSweep == (Init \/ InitFill) /\ [][NextSweep]_vars


(***************************************************************************)
(* Request handlers running in threads on the global cache instance.  The  *)
(* cache holds no lock: a thread may be switched between any two           *)
(* statements of get and set, and between two steps of their loops.        *)
(***************************************************************************)
Threads == {1, 2}
ConcKeys == {1, 2}

\* no entry held in the local cache_item
NoItem == [key |-> 0, value |-> None, timestamp |-> 0]

Idle == [pc |-> "idle", key |-> 0, val |-> None, item |-> NoItem,
         current_time |-> 0, it |-> 0, used |-> 0, keys |-> <<>>,
         res |-> None, err |-> "none"]

InitConc ==
    /\ cache = <<>>
    /\ max_size = MaxSize
    /\ useCache = TRUE
    /\ now = 0
    /\ last = Call("init", 0, None, NoSweeps, FALSE)
    /\ ret = None
    /\ setAt = [k \in Keys |-> -1]
    /\ thr = [t \in Threads |-> Idle]
    /\ req = NoRequest
    /\ rk = NoCall

At(t, pc) == thr[t].pc = pc

\* thread t moves to the record r
Goto(t, r) == thr' = [thr EXCEPT ![t] = r]

\* thread t returns v from its call
Return(t, v) == Goto(t, [Idle EXCEPT !.res = v])

\* thread t leaves its call with an exception
Raise(t, e) == Goto(t, [Idle EXCEPT !.pc = "raised", !.err = e])

ConcFrame == UNCHANGED <<max_size, useCache, now, last, ret, setAt, req, rk>>

\* a handler calls cache.get(k): the configuration test of get
CallGet(t, k) ==
    /\ thr[t].pc \in {"idle", "raised"}
    /\ IF ~useCache
       THEN Return(t, None)
       ELSE Goto(t, [Idle EXCEPT !.pc = "get_in", !.key = k])
    /\ UNCHANGED cache
    /\ ConcFrame

\* if key in self.cache
GetIn(t) ==
    /\ At(t, "get_in")
    /\ IF Has(cache, thr[t].key)
       THEN Goto(t, [thr[t] EXCEPT !.pc = "get_item"])
       ELSE Return(t, None)
    /\ UNCHANGED cache
    /\ ConcFrame

\* cache_item = self.cache[key]
GetItem(t) ==
    /\ At(t, "get_item")
    /\ IF Has(cache, thr[t].key)
       THEN Goto(t, [thr[t] EXCEPT !.pc = "get_expired",
                                   !.item = Item(cache, thr[t].key)])
       ELSE Raise(t, "KeyError")
    /\ UNCHANGED cache
    /\ ConcFrame

\* if not self._is_expired(cache_item['timestamp']): return cache_item['value']
GetExpired(t) ==
    /\ At(t, "get_expired")
    /\ IF ~IsExpired(thr[t].item.timestamp, now)
       THEN Return(t, thr[t].item.value)
       ELSE Goto(t, [thr[t] EXCEPT !.pc = "get_del"])
    /\ UNCHANGED cache
    /\ ConcFrame

\* del self.cache[key]; return None
GetDel(t) ==
    /\ At(t, "get_del")
    /\ IF Has(cache, thr[t].key)
       THEN /\ cache' = Del(cache, thr[t].key)
            /\ Return(t, None)
       ELSE /\ Raise(t, "KeyError")
            /\ UNCHANGED cache
    /\ ConcFrame

\* a handler calls cache.set(k, v): the configuration test of set, then
\* current_time = time.time() and the iterator of self.cache.items()
CallSet(t, k, v) ==
    /\ thr[t].pc \in {"idle", "raised"}
    /\ IF ~useCache
       THEN Return(t, None)
       ELSE Goto(t, [Idle EXCEPT !.pc = "expired_iter", !.key = k, !.val = v,
                                 !.current_time = now, !.it = 1,
                                 !.used = Len(cache)])
    /\ UNCHANGED cache
    /\ ConcFrame

\* one step of the list comprehension of _cleanup_expired: the dict iterator
\* raises when the dict has changed its size since the iteration began
ExpiredIter(t) ==
    /\ At(t, "expired_iter")
    /\ IF Len(cache) # thr[t].used
       THEN Raise(t, "RuntimeError")
       ELSE IF thr[t].it > Len(cache)
       THEN Goto(t, [thr[t] EXCEPT !.pc = "expired_del"])
       ELSE LET e == cache[thr[t].it]
            IN  Goto(t, [thr[t] EXCEPT
                    !.it = @ + 1,
                    !.keys = IF thr[t].current_time - e.timestamp > Duration
                             THEN Append(@, e.key) ELSE @])
    /\ UNCHANGED cache
    /\ ConcFrame

\* for key in expired_keys: del self.cache[key]
ExpiredDel(t) ==
    /\ At(t, "expired_del")
    /\ IF thr[t].keys = <<>>
       THEN /\ Goto(t, [thr[t] EXCEPT !.pc = "oldest_check"])
            /\ UNCHANGED cache
       ELSE IF Has(cache, Head(thr[t].keys))
       THEN /\ cache' = Del(cache, Head(thr[t].keys))
            /\ Goto(t, [thr[t] EXCEPT !.keys = Tail(@)])
       ELSE /\ Raise(t, "KeyError")
            /\ UNCHANGED cache
    /\ ConcFrame

\* if len(self.cache) >= self.max_size
OldestCheck(t) ==
    /\ At(t, "oldest_check")
    /\ IF Len(cache) >= max_size
       THEN Goto(t, [thr[t] EXCEPT !.pc = "oldest_sort"])
       ELSE Goto(t, [thr[t] EXCEPT !.pc = "put"])
    /\ UNCHANGED cache
    /\ ConcFrame

\* sorted_items = sorted(...); remove_count = max(1, len(sorted_items) // 5)
OldestSort(t) ==
    /\ At(t, "oldest_sort")
    /\ LET s == SortedItems(cache)
           n == Min(RemoveCount(Len(s)), Len(s))
       IN  Goto(t, [thr[t] EXCEPT !.pc = "oldest_del",
                                  !.keys = [i \in 1..n |-> s[i].key]])
    /\ UNCHANGED cache
    /\ ConcFrame

\* for key, _ in sorted_items[:remove_count]: del self.cache[key]
OldestDel(t) ==
    /\ At(t, "oldest_del")
    /\ IF thr[t].keys = <<>>
       THEN /\ Goto(t, [thr[t] EXCEPT !.pc = "put"])
            /\ UNCHANGED cache
       ELSE IF Has(cache, Head(thr[t].keys))
       THEN /\ cache' = Del(cache, Head(thr[t].keys))
            /\ Goto(t, [thr[t] EXCEPT !.keys = Tail(@)])
       ELSE /\ Raise(t, "KeyError")
            /\ UNCHANGED cache
    /\ ConcFrame

\* self.cache[key] = {'value': value, 'timestamp': time.time()}
PutStep(t) ==
    /\ At(t, "put")
    /\ cache' = Put(cache, thr[t].key, thr[t].val, now)
    /\ Return(t, None)
    /\ ConcFrame

NextConc ==
    \/ \E t \in Threads, k \in ConcKeys : CallGet(t, k)
    \/ \E t \in Threads, k \in ConcKeys : CallSet(t, k, Payload(1))
    \/ \E t \in Threads : GetIn(t)
    \/ \E t \in Threads : GetItem(t)
    \/ \E t \in Threads : GetExpired(t)
    \/ \E t \in Threads : GetDel(t)
    \/ \E t \in Threads : ExpiredIter(t)
    \/ \E t \in Threads : ExpiredDel(t)
    \/ \E t \in Threads : OldestCheck(t)
    \/ \E t \in Threads : OldestSort(t)
    \/ \E t \in Threads : OldestDel(t)
    \/ \E t \in Threads : PutStep(t)
    \/ Tick

SpecConc == InitConc /\ [][NextConc]_vars

(***************************************************************************)
(* The /ask handler and its two cached steps: the interpretation of the    *)
(* text (hybrid_route) and the matching (rank_candidates).  One request is *)
(* handled at a time; time may pass between its two steps.                 *)
(***************************************************************************)
\* None in a field that holds a string, and in a field that holds a number
NoStr == "None"
NoInt == -1

\* pandas prints a frame of more than display.max_rows rows as its first and
\* last display.min_rows div 2 rows and a line with its shape (both scaled)
DisplayMaxRows == 2
DisplayMinRows == 2

\* the request texts: the empty text and two questions
Texts == {"", "a", "b"}

\* Entities of router.py, in the order of its fields
Entity(region, volume_m3, soil_type) ==
    [region |-> region, volume_m3 |-> volume_m3, soil_type |-> soil_type,
     distance_km |-> NoInt, date |-> NoStr, purpose |-> NoStr,
     urgency |-> NoStr, usage |-> NoStr]

Ents == {Entity("Yecheon-gun", 500, "clay"), Entity("Gyeonggi-do", NoInt, NoStr)}

\* Entities.model_dump(): the dict, as its items in insertion order
ModelDump(e) ==
    << <<"region", e.region>>, <<"volume_m3", e.volume_m3>>,
       <<"soil_type", e.soil_type>>, <<"distance_km", e.distance_km>>,
       <<"date", e.date>>, <<"purpose", e.purpose>>,
       <<"urgency", e.urgency>>, <<"usage", e.usage>> >>

\* the rows of a candidate frame
CandRow(name, volume) ==
    [name |-> name, inout_type |-> "supply", current_volume_today |-> volume]

\* the frames the repository returns: no row, one row, and two frames of one
\* row more than the display shows, which differ in their second row only
ShortFrame == <<CandRow("A", 1000)>>

LongFrame(second) ==
    [i \in 1..(DisplayMaxRows + 1) |->
        IF i = 2 THEN second ELSE CandRow("A", 1000)]

LongFrames == {LongFrame(CandRow("A", 1000)), LongFrame(CandRow("B", 100))}

Frames == {<<>>, ShortFrame} \cup LongFrames

\* str(candidates) of a DataFrame
StrFrame(df) ==
    IF Len(df) > DisplayMaxRows
    THEN LET h == Max(1, DisplayMinRows \div 2)
         IN  [rows |-> SubSeq(df, 1, h) \o SubSeq(df, Len(df) - h + 1, Len(df)),
              shape |-> Len(df)]
    ELSE [rows |-> df, shape |-> 0]

\* hash() of a str and hashlib.md5: taken to be free of collisions
PyHash(x) == <<"hash", x>>
Md5(x) == <<"md5", x>>

\* the keys of the dicts that are hashed, in alphabetical order
SortedNames ==
    <<"candidates_hash", "date", "distance_km", "entities", "purpose",
      "region", "soil_type", "urgency", "usage", "volume_m3">>

NameRank(name) == CHOOSE i \in 1..Len(SortedNames) : SortedNames[i] = name

\* the items of a dict ordered by key
RECURSIVE InsertByName(_, _)
InsertByName(s, item) ==
    IF s = <<>> THEN <<item>>
    ELSE IF NameRank(s[Len(s)][1]) <= NameRank(item[1]) THEN Append(s, item)
    ELSE Append(InsertByName(SubSeq(s, 1, Len(s) - 1), item), s[Len(s)])

RECURSIVE SortByName(_)
SortByName(d) ==
    IF d = <<>> THEN <<>>
    ELSE InsertByName(SortByName(SubSeq(d, 1, Len(d) - 1)), d[Len(d)])

\* a json.dumps that orders the keys of the outer dict only
JsonDumpsOuterSorted(d) == SortByName(d)

\* json.dumps(data, sort_keys=True): the inner dict entities is sorted too
JsonDumpsSorted(d) ==
    LET s == SortByName(d)
    IN  [i \in 1..Len(s) |->
            IF s[i][1] = "entities"
            THEN <<s[i][1], SortByName(s[i][2])>>
            ELSE s[i]]

\* SimpleCache._generate_key of a dict, and of a str
GenerateKeyOfDict(data) == Md5(JsonDumpsSorted(data))
GenerateKeyOfStr(data) == Md5(data)

\* the cache keys of cache_route_result and cache_matching_result
RouteKey(text) == <<"route", GenerateKeyOfStr(text)>>

MatchKey(entities, candidates) ==
    <<"match", GenerateKeyOfDict(
        << <<"entities", entities>>,
           <<"candidates_hash", PyHash(StrFrame(candidates))>> >>)>>

\* the keys of the texts, requests and frames of the model, computed once
RouteKeyOf == [t \in Texts |-> RouteKey(t)]
MatchKeyOf == [e \in Ents |-> [c \in Frames |-> MatchKey(ModelDump(e), c)]]

AskKeys ==
    {RouteKeyOf[t] : t \in Texts \ {""}}
      \cup {MatchKeyOf[e][c] : e \in Ents, c \in Frames}

\* hybrid_route: the confidence (in hundredths) and the intent it returns for
\* the intent and the entities the language model gives
RouteConfidence(intent, e) ==
    LET c0 == 60 + (IF e.region \notin {NoStr, ""} THEN 15 ELSE 0)
                 + (IF e.volume_m3 \notin {NoInt, 0} THEN 15 ELSE 0)
                 + (IF e.soil_type \notin {NoStr, ""} THEN 10 ELSE 0)
    IN  IF intent \in {"UNKNOWN", "SMALLTALK"} THEN Min(c0, 50)
        ELSE IF intent \in {"MATCH_FIND", "REGISTER_DEMAND"} THEN Min(c0, 90)
        ELSE c0

MakeRoute(intent, e) ==
    [kind |-> "route",
     intent |-> IF RouteConfidence(intent, e) >= 50 THEN intent ELSE "UNKNOWN",
     confidence |-> Min(RouteConfidence(intent, e), 95),
     entities |-> e]

\* hybrid_route raises (the exception of the language model client)
RouteRaised == [kind |-> "raised", intent |-> "UNKNOWN", confidence |-> 0,
                entities |-> Entity(NoStr, NoInt, NoStr)]

\* what a call of hybrid_route may do for a text that is not empty: return a
\* matching request, return small talk, or raise
HybridRoute(text) ==
    {MakeRoute("MATCH_FIND", e) : e \in Ents}
      \cup {MakeRoute("SMALLTALK", Entity(NoStr, NoInt, NoStr)), RouteRaised}

\* geocode_user_address raises for an empty and for a too broad region
\* (broad_regions, the names romanised)
BroadRegions ==
    {"Gyeonggi-do", "Seoul-si", "Busan-si", "Daegu-si", "Incheon-si",
     "Gwangju-si", "Daejeon-si", "Ulsan-si", "Sejong-si", "Gangwon-do",
     "Chungcheongbuk-do", "Chungcheongnam-do", "Jeollabuk-do",
     "Jeollanam-do", "Gyeongsangbuk-do", "Gyeongsangnam-do", "Jeju-do",
     "Seoul", "Busan", "Daegu", "Incheon", "Gwangju", "Daejeon", "Ulsan",
     "Sejong", "Gangwon", "Chungbuk", "Chungnam", "Jeonbuk", "Jeonnam",
     "Gyeongbuk", "Gyeongnam", "Jeju", "Seoul geuncheo",
     "Gyeonggi-do geuncheo", "Busan geuncheo", "Daegu geuncheo",
     "Incheon geuncheo", "Gwangju geuncheo", "Daejeon geuncheo",
     "Ulsan geuncheo", "Sejong geuncheo", "Gangwon geuncheo",
     "Chungbuk geuncheo", "Chungnam geuncheo", "Jeonbuk geuncheo",
     "Jeonnam geuncheo", "Gyeongbuk geuncheo", "Gyeongnam geuncheo",
     "Jeju geuncheo"}

\* a geocoder that refuses the empty address only
GeocodeRaisesEmpty(address) == address \in {NoStr, ""}

GeocodeRaises(address) == address \in {NoStr, ""} \/ address \in BroadRegions

\* the pair (results_df, summary) that rank_candidates computes, named by the
\* request and the candidate frame it was computed from
RankCandidates(e, candidates) ==
    [kind |-> "match", entities |-> e, candidates |-> candidates]

\* what a repository call gives: a frame, or an exception
Fetched(rows) == [ok |-> TRUE, rows |-> rows]
FetchFailed == [ok |-> FALSE, rows |-> <<>>]

\* query_candidates_by_conditions is called with limit=50, fewer rows than the
\* display shows in full; load_candidates reads the whole table
QueryOutcomes == {Fetched(<<>>), Fetched(ShortFrame), FetchFailed}
LoadOutcomes == {Fetched(f) : f \in LongFrames} \cup {FetchFailed}

\* a fetch that falls back to the full set only on an empty answer
FetchCandidatesEmptyOnly(q, l) == IF q.ok /\ Len(q.rows) < 1 THEN l ELSE q

\* the candidates of ask: those of query_candidates_by_conditions (q), and
\* those of load_candidates (l) when the query gives no row or raises
FetchCandidates(q, l) == IF q.ok /\ Len(q.rows) >= 1 THEN q ELSE l

FetchResults ==
    {FetchCandidates(q, l) : q \in QueryOutcomes, l \in LoadOutcomes}

AskCall(op, text, key, executed, outcome, candidates, result) ==
    [op |-> op, text |-> text, key |-> key, executed |-> executed,
     outcome |-> outcome, candidates |-> candidates, result |-> result]

Response(outcome) == [kind |-> outcome]

InitAsk ==
    /\ cache = <<>>
    /\ max_size = MaxSize
    /\ useCache = TRUE
    /\ now = 0
    /\ last = Call("init", 0, None, NoSweeps, FALSE)
    /\ ret = None
    /\ setAt = [k \in AskKeys |-> -1]
    /\ thr = NoThreads
    /\ req = NoRequest
    /\ rk = NoCall

\* ask, up to the end of the interpretation step: routed is what
\* hybrid_route does if it is called
AskRoute(text, routed) ==
    /\ req.pc = "idle"
    /\ LET key == RouteKeyOf[text]
           cached_route == GetValue(cache, key, now, useCache)
           c1 == GetStore(cache, key, now, useCache)
           hit == cached_route # None
           r == IF hit THEN cached_route ELSE routed
           c2 == IF hit THEN c1
                 ELSE SetStore(c1, max_size, key, routed, now, useCache)
           outcome ==
               IF r.intent = "UNKNOWN" \/ r.confidence < 55 THEN "followup"
               ELSE IF r.intent = "MATCH_FIND" THEN "matching"
               ELSE "not_ready"
       IN  IF text = ""
           THEN /\ last' = AskCall("route", text, key, FALSE, "followup",
                                   <<>>, None)
                /\ ret' = Response("followup")
                /\ UNCHANGED <<cache, setAt, req>>
           ELSE IF r.kind = "raised"
           THEN /\ cache' = c1
                /\ last' = AskCall("route", text, key, TRUE, "error", <<>>, None)
                /\ ret' = Response("error")
                /\ UNCHANGED <<setAt, req>>
           ELSE /\ cache' = c2
                /\ setAt' = IF ~hit /\ useCache
                            THEN [setAt EXCEPT ![key] = now] ELSE setAt
                /\ last' = AskCall("route", text, key, ~hit, outcome, <<>>, r)
                /\ ret' = Response(outcome)
                /\ req' = IF outcome = "matching"
                          THEN [pc |-> "match", text |-> text, route |-> r]
                          ELSE NoRequest
    /\ UNCHANGED <<max_size, useCache, now, thr, rk>>

\* ask, the matching step: f is what the repository gives
AskMatch(f) ==
    /\ req.pc = "match"
    /\ LET e == req.route.entities
           candidates == f.rows
           key == MatchKeyOf[e][candidates]
           cached_matching == GetValue(cache, key, now, useCache)
           c1 == GetStore(cache, key, now, useCache)
           hit == cached_matching # None
           result == RankCandidates(e, candidates)
       IN  IF ~f.ok
           THEN /\ last' = AskCall("match", req.text, key, FALSE, "error",
                                   <<>>, None)
                /\ ret' = Response("error")
                /\ UNCHANGED <<cache, setAt>>
           ELSE IF hit
           THEN /\ cache' = c1
                /\ last' = AskCall("match", req.text, key, FALSE, "table",
                                   candidates, cached_matching)
                /\ ret' = Response("table")
                /\ UNCHANGED setAt
           ELSE IF GeocodeRaises(e.region)
           THEN /\ cache' = c1
                /\ last' = AskCall("match", req.text, key, TRUE, "ambiguous",
                                   candidates, None)
                /\ ret' = Response("ambiguous")
                /\ UNCHANGED setAt
           ELSE /\ cache' = SetStore(c1, max_size, key, result, now, useCache)
                /\ setAt' = IF useCache THEN [setAt EXCEPT ![key] = now]
                            ELSE setAt
                /\ last' = AskCall("match", req.text, key, TRUE, "table",
                                   candidates, result)
                /\ ret' = Response("table")
    /\ req' = NoRequest
    /\ UNCHANGED <<max_size, useCache, now, thr, rk>>

\* the handler of /cache/clear
ClearCache ==
    /\ req.pc = "idle"
    /\ cache' = <<>>
    /\ setAt' = [k \in AskKeys |-> -1]
    /\ ret' = Response("cleared")
    /\ last' = Call("clear", 0, None, NoSweeps, FALSE)
    /\ UNCHANGED <<max_size, useCache, now, thr, req, rk>>

NextAsk ==
    \/ \E text \in Texts : \E routed \in HybridRoute(text) :
          AskRoute(text, routed)
    \/ \E f \in FetchResults : AskMatch(f)
    \/ ClearCache
    \/ Tick

SpecAsk == InitAsk /\ [][NextAsk]_vars

(***************************************************************************)
(* Properties of the cache calls.                                          *)
(***************************************************************************)
\* the age of the entry of key k in store c at time t
Age(c, k, t) == t - Item(c, k).timestamp

\* the entries of a store, as a set
Entries(c) == {c[i] : i \in 1..Len(c)}

\* C1: with the cache enabled, a get(k) that directly follows set(k, v)
\* returns v, and a get(k) made when more than the duration has passed
\* since the latest set(k, _) returns None.
C1_SetThenGet ==
    [][last'.op = "get" =>
         /\ (last.op = "set" /\ last.key = last'.key /\ useCache)
                => ret' = last.val
         /\ (setAt[last'.key] >= 0 /\ now - setAt[last'.key] > Duration)
                => ret' = None]_vars

\* C1 witness: a get has returned the value a set stored at this very time.
C1_Witness ==
    /\ last.op = "get"
    /\ ret \in Values
    /\ setAt[last.key] = now

\* C2 as claimed: whenever get returns a value the age of the entry is
\* strictly below the duration.
C2_StrictlyYounger ==
    (last.op = "get" /\ ret # None) => Age(cache, last.key, now) < Duration

\* C2 amended: whenever get returns a value the age of the entry is at most
\* the duration, and an enabled get of an entry whose age equals the duration
\* returns its value.
C2_VisibleUpToDuration ==
    [][last'.op = "get" =>
         LET k == last'.key
         IN  /\ ret' # None => (Has(cache, k) /\ Age(cache, k, now) <= Duration)
             /\ (useCache /\ Has(cache, k) /\ Age(cache, k, now) = Duration)
                    => ret' = Item(cache, k).value]_vars

\* C2 witness: a get has returned an entry whose age equals the duration.
C2_Witness ==
    /\ last.op = "get"
    /\ ret # None
    /\ Age(cache, last.key, now) = Duration

\* C3: a set that finds n >= max_size entries after its TTL sweep removes
\* exactly max(1, n div 5) of them, none of them younger than an entry it
\* keeps, and leaves k -> v in the store.
C3_CapacitySweep ==
    [][(last'.op = "set" /\ useCache) =>
         LET k == last'.key
             pre == {e \in Entries(cache) : now - e.timestamp <= Duration}
             n == Cardinality(pre)
             r == IF n \div 5 >= 1 THEN n \div 5 ELSE 1
         IN  n >= max_size =>
               \E R \in SUBSET pre :
                  /\ Cardinality(R) = r
                  /\ \A x \in R, y \in pre \ R : x.timestamp <= y.timestamp
                  /\ Entries(cache') =
                       {e \in pre \ R : e.key # k}
                         \cup {[key |-> k, value |-> last'.val,
                                timestamp |-> now]}]_vars

\* C3 witness: a set has run its capacity sweep on a full store and removed
\* more than one entry.
C3_Witness ==
    /\ last.op = "set"
    /\ last.n >= max_size
    /\ Cardinality(last.removed) > 1
    /\ Has(cache, last.key)

\* C4: the store never holds more than max_size entries.
C4_SizeBounded == Len(cache) <= max_size

\* C4 witness: a set that found the store full has left it full.
C4_Witness ==
    /\ last.op \in {"set", "get_or_set"}
    /\ last.n >= max_size
    /\ Len(cache) = max_size

\* C5: right after a set on an enabled cache no entry of the store is older
\* than the duration.
C5_NoExpiredAfterSet ==
    (last.op = "set" /\ useCache) =>
        \A e \in Entries(cache) : now - e.timestamp <= Duration

\* C5 witness: a set has purged an expired entry and kept another one.
C5_Witness ==
    /\ last.op = "set"
    /\ last.purged > 0
    /\ Len(cache) > 1

\* C6: a get leaves the store as it is, except that a get of an expired
\* entry removes that one entry.
C6_GetFrame ==
    [][last'.op = "get" =>
         LET k == last'.key
         IN  IF useCache /\ Has(cache, k) /\ Age(cache, k, now) > Duration
             THEN /\ Entries(cache') = Entries(cache) \ {Item(cache, k)}
                  /\ Len(cache') = Len(cache) - 1
             ELSE cache' = cache]_vars

\* C6 witness: a get has dropped an expired entry and left another in place.
C6_Witness ==
    /\ last.op = "get"
    /\ last.dropped
    /\ cache # <<>>

\* C7: while the cache is switched off every get returns None and every get
\* and set leaves the store unchanged.
C7_DisabledNoOp ==
    [][(~useCache /\ last'.op \in {"get", "set"}) =>
         /\ cache' = cache
         /\ ret' = None]_vars

\* C7 witness: a get on a switched-off cache has returned None for a key
\* whose entry is in the store and not expired.
C7_Witness ==
    /\ ~useCache
    /\ last.op = "get"
    /\ ret = None
    /\ Has(cache, last.key)
    /\ Age(cache, last.key, now) <= Duration

\* C8: under every interleaving of the get and set calls of several handler
\* threads no call fails.
C8_NoCallFails == \A t \in Threads : thr[t].pc # "raised"

\* a step of ask that looked its key up in the cache
Lookup(call) ==
    \/ call.op = "route" /\ call.text # ""
    \/ call.op = "match" /\ call.outcome # "error"

\* C9 (as stated): with the cache enabled, a step of ask whose key was cached
\* less than the duration ago is served from the cache, hybrid_route or
\* rank_candidates not executed, whatever requests were handled in between
C9_ServedWithinDuration ==
    [][(Lookup(last') /\ useCache /\ setAt[last'.key] >= 0
          /\ now - setAt[last'.key] < Duration)
       => ~last'.executed]_vars

\* C9 (amended): with the cache enabled, a step of ask whose key was cached
\* less than the duration ago and is still in the store (no set at a full
\* store has evicted it, no clear has removed it) is served from the cache:
\* hybrid_route or rank_candidates is not executed and the step uses the
\* value that was cached
C9_ServedWhileStored ==
    [][(Lookup(last') /\ useCache /\ setAt[last'.key] >= 0
          /\ now - setAt[last'.key] < Duration /\ Has(cache, last'.key))
       => /\ ~last'.executed
          /\ last'.result = Item(cache, last'.key).value
          /\ Item(cache, last'.key).timestamp = setAt[last'.key]]_vars

\* C9 witness: a matching step was served from the cache while the store
\* was full of entries cached at other steps
C9_Witness ==
    /\ last.op = "match" /\ ~last.executed /\ last.outcome = "table"
    /\ Len(cache) = max_size
    /\ setAt[last.key] >= 0 /\ now - setAt[last.key] < Duration

\* C10: a matching result served from the cache was computed from the
\* candidate frame of the request it is served to
C10_HitFromSameCandidates ==
    (last.op = "match" /\ last.outcome = "table" /\ ~last.executed)
      => last.result.candidates = last.candidates

(***************************************************************************)
(* The key derivation on its own: _generate_key applied to two dicts that  *)
(* cache_matching_result could be given, built in several insertion        *)
(* orders.  A dict is the sequence of its items in insertion order.        *)
(***************************************************************************)
\* the other variables, which the calls below do not touch
InitRest ==
    /\ cache = <<>>
    /\ max_size = MaxSize
    /\ useCache = TRUE
    /\ now = 0
    /\ last = Call("init", 0, None, NoSweeps, FALSE)
    /\ ret = None
    /\ setAt = [k \in Keys |-> -1]
    /\ thr = NoThreads
    /\ req = NoRequest

Rest == UNCHANGED <<cache, max_size, useCache, now, last, ret, setAt, thr, req>>

\* demand requests that differ from the first one in exactly one field
BaseEnt == Entity("Yecheon-gun", 500, "clay")

KeyEnts ==
    {BaseEnt,
     [BaseEnt EXCEPT !.region = "Andong-si"],
     [BaseEnt EXCEPT !.volume_m3 = 30],
     [BaseEnt EXCEPT !.volume_m3 = NoInt],
     [BaseEnt EXCEPT !.soil_type = "sand"],
     [BaseEnt EXCEPT !.distance_km = 50],
     [BaseEnt EXCEPT !.date = "2024-03"],
     [BaseEnt EXCEPT !.purpose = "agriculture"],
     [BaseEnt EXCEPT !.urgency = "urgent"],
     [BaseEnt EXCEPT !.usage = "landfill"]}

\* other insertion orders of the items of a dict
Reversed(d) == [i \in 1..Len(d) |-> d[Len(d) + 1 - i]]
Rotated(d) == IF d = <<>> THEN d ELSE Tail(d) \o <<Head(d)>>
InsertionOrders(d) == {d, Reversed(d), Rotated(d)}

\* the dict that cache_matching_result hashes, its items in the order of the
\* source or in the other order
MatchData(entities, candidates, swap) ==
    IF swap
    THEN << <<"candidates_hash", PyHash(StrFrame(candidates))>>,
            <<"entities", entities>> >>
    ELSE << <<"entities", entities>>,
            <<"candidates_hash", PyHash(StrFrame(candidates))>> >>

KeyInputs ==
    {MatchData(d, ShortFrame, swap) :
        d \in UNION {InsertionOrders(ModelDump(e)) : e \in KeyEnts},
        swap \in BOOLEAN}

InitKey ==
    /\ InitRest
    /\ rk \in {[pc |-> "key", a |-> a, b |-> b, ka |-> NoStr, kb |-> NoStr] :
                 a \in KeyInputs, b \in KeyInputs}

\* _generate_key(a) and _generate_key(b)
GenerateKeys ==
    /\ rk.pc = "key"
    /\ rk' = [rk EXCEPT !.pc = "keyed",
                        !.ka = GenerateKeyOfDict(rk.a),
                        !.kb = GenerateKeyOfDict(rk.b)]
    /\ Rest

NextKey == GenerateKeys

SpecKey == InitKey /\ [][NextKey]_vars

(***************************************************************************)
(* The scoring function of the matching engine (src/matcher.py).           *)
(* Numbers are exact: a distance is in tenths of a km, a weight in         *)
(* hundredths, a term of the score in 1/2000, and a score in 1/2000 of a   *)
(* point, so that 100 * (weight * term) is the product of the two          *)
(* integers.  Korean words are romanised.                                  *)
(***************************************************************************)
\* get_soil_type_mapping of store.py: the old soil classes to the new ones
SoilTypeMapping(soil) ==
    CASE soil \in {"jeomto", "hwangto"} -> "sunseongto"
      [] soil \in {"sajil", "honhap", "morae"} -> "sato"
      [] soil = "jagal" -> "ripingam"
      [] soil = "amseok" -> "balpaam"
      [] OTHER -> soil

\* soil_similarity of soil_match_score, in hundredths; 0 for other pairs
SoilSimilarity(a, b) ==
    LET p == {a, b}
    IN  CASE p = {"sato", "sunseongto"} -> 70
          [] p = {"sato", "ripingam"} -> 50
          [] p = {"sato", "balpaam"} -> 40
          [] p = {"sato", "punghwaam"} -> 60
          [] p = {"sunseongto", "ripingam"} -> 30
          [] p = {"sunseongto", "balpaam"} -> 20
          [] p = {"sunseongto", "punghwaam"} -> 80
          [] p = {"ripingam", "balpaam"} -> 90
          [] p = {"ripingam", "punghwaam"} -> 60
          [] p = {"balpaam", "punghwaam"} -> 50
          [] OTHER -> 0

\* usage_preferences of soil_match_score, in hundredths, as rows over
\* sato, sunseongto, ripingam, balpaam, punghwaam
UsagePreferences ==
    [maeripyong |-> <<90, 95, 40, 30, 60>>,
     doemeugiyong |-> <<95, 90, 70, 60, 80>>,
     jogyeongsikjaeyong |-> <<60, 90, 50, 40, 85>>,
     gujomuldoemeugiyong |-> <<90, 70, 95, 90, 60>>,
     doroseongtoyong |-> <<95, 60, 90, 95, 70>>,
     gitayuyong |-> <<80, 80, 70, 60, 70>>]

\* usage_preferences[target_usage].get(supply_soil, 0.5), in hundredths
UsageWeight(target_usage, soil) ==
    LET row == UsagePreferences[target_usage]
    IN  CASE soil = "sato" -> row[1]
          [] soil = "sunseongto" -> row[2]
          [] soil = "ripingam" -> row[3]
          [] soil = "balpaam" -> row[4]
          [] soil = "punghwaam" -> row[5]
          [] OTHER -> 50

\* soil_match_score, in 1/2000
SoilMatchScore(supply_soil, demand_soil, purpose, usage) ==
    IF demand_soil \in {NoStr, ""} \/ supply_soil \in {NoStr, ""} THEN 1000
    ELSE LET supply == SoilTypeMapping(supply_soil)
             demand == SoilTypeMapping(demand_soil)
             base_score == SoilSimilarity(supply, demand)
             target_usage == IF usage \in {NoStr, ""} THEN purpose ELSE usage
         IN  IF supply = demand THEN 2000
             ELSE IF target_usage \in DOMAIN UsagePreferences
             THEN 2 * (6 * base_score + 4 * UsageWeight(target_usage, supply))
             ELSE 20 * base_score

\* volume_fit_score, in 1/2000
VolumeFitScore(supply, demand) ==
    IF supply = NoInt \/ demand = NoInt \/ Max(supply, demand) = 0 THEN 0
    ELSE IF supply >= demand THEN 2000
    ELSE 0

\* base_weights of score_candidate, in hundredths
BaseWeights(urgency) ==
    CASE urgency = "gingeup" -> [dist |-> 30, vol |-> 40, soil |-> 20, acc |-> 10]
      [] urgency = "yeoyu" -> [dist |-> 60, vol |-> 20, soil |-> 15, acc |-> 5]
      [] OTHER -> [dist |-> 50, vol |-> 30, soil |-> 15, acc |-> 5]

\* dist_term of score_candidate, in 1/2000: Dmax is 200 km
DistTerm(distance_km) ==
    IF distance_km = NoInt THEN 1000 ELSE 2000 - Min(distance_km, 2000)

\* a score without the volume gate
ScoreCandidateNoGate(distance_km, supply_volume, demand_volume, supply_soil, demand_soil, access_ok, deadline_penalty, purpose, urgency, usage) ==
    LET w == BaseWeights(urgency)
    IN  Max(0, w.dist * DistTerm(distance_km)
               + w.vol * VolumeFitScore(supply_volume, demand_volume)
               + w.soil * SoilMatchScore(supply_soil, demand_soil, purpose,
                                         usage)
               + w.acc * (IF access_ok THEN 2000 ELSE 0)
               + (IF urgency = "gingeup" THEN 10000 ELSE 0)
               - (IF deadline_penalty THEN 20000 ELSE 0))

\* a score whose distance term grows with the distance
ScoreCandidateFarFirst(distance_km, supply_volume, demand_volume, supply_soil, demand_soil, access_ok, deadline_penalty, purpose, urgency, usage) ==
    IF supply_volume < demand_volume THEN 0
    ELSE BaseWeights(urgency).dist * Min(distance_km, 2000)

\* a score whose gate also refuses a supply equal to the demand
ScoreCandidateStrictGate(distance_km, supply_volume, demand_volume, supply_soil, demand_soil, access_ok, deadline_penalty, purpose, urgency, usage) ==
    IF supply_volume <= demand_volume THEN 0
    ELSE ScoreCandidateNoGate(distance_km, supply_volume, demand_volume, supply_soil, demand_soil, access_ok, deadline_penalty, purpose, urgency, usage)

\* score_candidate, in 1/2000 of a point
ScoreCandidate(distance_km, supply_volume, demand_volume, supply_soil, demand_soil, access_ok, deadline_penalty, purpose, urgency, usage) ==
    IF supply_volume < demand_volume THEN 0
    ELSE LET w == BaseWeights(urgency)
             base == w.dist * DistTerm(distance_km)
                     + w.vol * VolumeFitScore(supply_volume, demand_volume)
                     + w.soil * SoilMatchScore(supply_soil, demand_soil,
                                               purpose, usage)
                     + w.acc * (IF access_ok THEN 2000 ELSE 0)
             urgency_bonus == CASE urgency = "gingeup" -> 10000
                                [] urgency = "geupham" -> 6000
                                [] OTHER -> 0
             penalty == IF deadline_penalty THEN 20000 ELSE 0
         IN  Max(0, base + urgency_bonus - penalty)

\* the arguments of score_candidate: two distances, and two supply volumes,
\* for otherwise equal calls
InitScore ==
    /\ InitRest
    /\ rk \in [pc : {"score"},
               d1 : {NoInt, 0, 400, 1800, 2500},
               d2 : {NoInt, 0, 400, 1800, 2500},
               supply_volume : {0, 500, 1000}, supply_volume2 : {0, 1000},
               demand_volume : {0, 500},
               supply_soil : {NoStr, "jeomto", "sato"},
               demand_soil : {NoStr, "jeomto", "balpaam"},
               access_ok : BOOLEAN, deadline_penalty : BOOLEAN,
               urgency : {NoStr, "gingeup", "geupham", "yeoyu"},
               usage : {NoStr, "maeripyong"},
               s1 : {NoInt}, s2 : {NoInt}, s3 : {NoInt}]

\* score_candidate with the distance d
ScoreOf(c, d) ==
    ScoreCandidate(d, c.supply_volume, c.demand_volume, c.supply_soil,
                   c.demand_soil, c.access_ok, c.deadline_penalty, NoStr,
                   c.urgency, c.usage)

\* the calls of score_candidate: at the two distances, and at the first
\* distance for the second supply volume
Score ==
    /\ rk.pc = "score"
    /\ rk' = [rk EXCEPT !.pc = "scored", !.s1 = ScoreOf(rk, rk.d1),
                        !.s2 = ScoreOf(rk, rk.d2),
                        !.s3 = ScoreOf([rk EXCEPT !.supply_volume =
                                                     rk.supply_volume2],
                                       rk.d1)]
    /\ Rest

NextScore == Score

SpecScore == InitScore /\ [][NextScore]_vars

(***************************************************************************)
(* rank_candidates (src/matcher.py).  The map is a line: a place is a      *)
(* number in tenths of a km, and the great-circle distance of two places   *)
(* is the absolute value of their difference.  A candidate row holds, as   *)
(* detour, by how much the road to it is longer than the straight line.    *)
(* A call runs in steps: the resolution of the region (request, answer),   *)
(* Stage A, a request and an answer per real-distance lookup of Stage B,   *)
(* and the rest (deduplication, selection, summary).                       *)
(***************************************************************************)
\* haversine_km
HaversineKm(ref, pos) == IF ref >= pos THEN ref - pos ELSE pos - ref

\* a default table that is looked up with nothing else than 200
DefaultVolumeFlat(purpose) == 200

\* get_default_volume_by_purpose
DefaultVolumeByPurpose(purpose) ==
    CASE purpose = "nongeop" -> 30
      [] purpose = "jogyeong" -> 20
      [] purpose \in {"bokgu", "doemeugi", "hacheonjeongbi", "sansataebokgu"} -> 100
      [] purpose \in {"geonseol", "maerip", "gichogongsa", "dorogongsa"} -> 200
      [] OTHER -> 200

\* the requested volume and applied_defaults of rank_candidates
AppliedDefaults(demand_volume, purpose) ==
    IF demand_volume = NoInt /\ purpose \notin {NoStr, ""}
    THEN [volume |-> DefaultVolumeByPurpose(purpose),
          notes |-> << <<"default volume", DefaultVolumeByPurpose(purpose),
                         purpose>> >>]
    ELSE IF demand_volume = NoInt
    THEN [volume |-> 200, notes |-> << <<"default volume", 200, NoStr>> >>]
    ELSE [volume |-> demand_volume, notes |-> <<>>]

\* a Stage A that keeps the rows of every role
StageAFilterAnyRole(candidates, ref, demand_volume) ==
    LET kept(i) == /\ HaversineKm(ref, candidates[i].pos) <= 2000
                   /\ candidates[i].current_volume_today >= demand_volume
        F[i \in 0..Len(candidates)] ==
            IF i = 0 THEN <<>>
            ELSE IF kept(i)
            THEN Append(F[i - 1],
                        [idx |-> i, row |-> candidates[i],
                         straight |-> HaversineKm(ref, candidates[i].pos)])
            ELSE F[i - 1]
    IN  F[Len(candidates)]

\* Stage A, the loop over candidates_df.iterrows(): the rows that are kept,
\* each with its index in the frame and its straight-line distance
StageAFilter(candidates, ref, demand_volume) ==
    LET kept(i) == /\ candidates[i].inout_type = "supply"
                   /\ HaversineKm(ref, candidates[i].pos) <= 2000
                   /\ candidates[i].current_volume_today >= demand_volume
        F[i \in 0..Len(candidates)] ==
            IF i = 0 THEN <<>>
            ELSE IF kept(i)
            THEN Append(F[i - 1],
                        [idx |-> i, row |-> candidates[i],
                         straight |-> HaversineKm(ref, candidates[i].pos)])
            ELSE F[i - 1]
    IN  F[Len(candidates)]

\* candidates_filtered.sort(key=straight-line distance): list.sort is stable
RECURSIVE SortByStraight(_)
SortByStraight(s) ==
    IF s = <<>> THEN <<>>
    ELSE LET front == SortByStraight(SubSeq(s, 1, Len(s) - 1))
             e == s[Len(s)]
             n == Cardinality({j \in 1..Len(front) :
                                 front[j].straight <= e.straight})
         IN  SubSeq(front, 1, n) \o <<e>> \o SubSeq(front, n + 1, Len(front))

\* a cut that keeps the first ten rows of the frame order
NearestTenUnsorted(s) == SubSeq(s, 1, Min(Len(s), 10))

\* candidates_filtered.sort(...); candidates_filtered[:10]
NearestTen(s) == SubSeq(SortByStraight(s), 1, Min(Len(s), 10))

\* a get_real_distance whose estimate is the straight-line distance itself
GetRealDistanceNoFactor(c, answered) ==
    IF answered THEN c.straight + c.row.detour ELSE c.straight

\* get_real_distance: the road distance of the directions service, or the
\* straight-line distance times 1.4 when the service fails
GetRealDistance(c, answered) ==
    IF answered THEN c.straight + c.row.detour ELSE (c.straight * 14) \div 10

\* round(score, 1): a score in 1/2000 of a point to tenths, half to even
Round1(score) ==
    LET q == score \div 200
        r == score % 200
    IN  IF r > 100 \/ (r = 100 /\ q % 2 = 1) THEN q + 1 ELSE q

\* the row that Stage B appends for the candidate c at the distance real_dist
ScoredRow(c, real_dist, e, demand_volume) ==
    [name |-> c.row.name,
     distance_km |-> real_dist,
     current_capacity_m3 |-> c.row.current_volume_today,
     soil_type |-> c.row.soil_type,
     score |-> Round1(ScoreCandidate(real_dist, c.row.current_volume_today,
                          demand_volume, c.row.soil_type, e.soil_type, TRUE,
                          FALSE, e.purpose, e.urgency,
                          IF e.usage \in {NoStr, ""} THEN c.row.usage
                          ELSE e.usage)),
     idx |-> c.idx]

\* a deduplication that keeps the first row of every name
DedupFirst(rows) ==
    LET first(i) == \A j \in 1..(i - 1) : rows[j].name # rows[i].name
        F[i \in 0..Len(rows)] ==
            IF i = 0 THEN <<>>
            ELSE IF first(i) THEN Append(F[i - 1], rows[i]) ELSE F[i - 1]
    IN  F[Len(rows)]

\* the loop over rows that fills filtered_rows
Dedup(rows) ==
    LET F[i \in 0..Len(rows)] ==
            IF i = 0 THEN <<>>
            ELSE LET f == F[i - 1]
                     row == rows[i]
                     same == {j \in 1..Len(f) : f[j].name = row.name}
                 IN  IF same = {} THEN Append(f, row)
                     ELSE LET existing_index == CHOOSE j \in same : TRUE
                          IN  IF row.score > f[existing_index].score
                              THEN [f EXCEPT ![existing_index] = row]
                              ELSE f
    IN  F[Len(rows)]

\* sort_values("score", ascending=False): rows of equal score keep their
\* order (the sort of fewer than 17 values is an insertion sort)
RECURSIVE SortByScore(_)
SortByScore(s) ==
    IF s = <<>> THEN <<>>
    ELSE LET front == SortByScore(SubSeq(s, 1, Len(s) - 1))
             e == s[Len(s)]
             n == Cardinality({j \in 1..Len(front) : front[j].score >= e.score})
         IN  SubSeq(front, 1, n) \o <<e>> \o SubSeq(front, n + 1, Len(front))

\* a selection that takes the first three rows as they stand
TopThreeUnsorted(filtered_rows) ==
    SubSeq(filtered_rows, 1, Min(Len(filtered_rows), 3))

\* sort_values("score", ascending=False).head(3)
TopThree(filtered_rows) ==
    SubSeq(SortByScore(filtered_rows), 1, Min(Len(filtered_rows), 3))

\* prefs of rank_candidates
Prefs(e, demand_volume) ==
    LET target_usage == IF e.usage \in {NoStr, ""} THEN e.purpose ELSE e.usage
    IN  << <<"volume first", demand_volume>>, <<"nearest ten, top three">>,
           <<"urgency", IF e.urgency \in {"gingeup", "geupham", "yeoyu"}
                        THEN e.urgency ELSE "score order">> >>
        \o (IF target_usage \notin {NoStr, ""}
            THEN << <<"usage preference", target_usage>> >>
            ELSE IF e.soil_type \notin {NoStr, ""}
            THEN << <<"soil preference", e.soil_type>> >>
            ELSE <<>>)

\* a summary whose length is cut after the note is put in front
SummaryCutLast(prefs, applied_defaults) ==
    LET all == (IF applied_defaults # <<>>
                THEN << <<"applied defaults", applied_defaults>> >>
                ELSE <<>>) \o prefs
    IN  SubSeq(all, 1, Min(Len(all), 3))

\* summary of rank_candidates
Summary(prefs, applied_defaults) ==
    (IF applied_defaults # <<>>
     THEN << <<"applied defaults", applied_defaults>> >>
     ELSE <<>>) \o SubSeq(prefs, 1, Min(Len(prefs), 3))

\* the place that a region resolves to, and the place of
\* config.DEFAULT_LAT, config.DEFAULT_LON
RegionPlace(region) == 0
DefaultPlace == 300

\* a row of the candidate frame
Cand(name, inout_type, pos, detour, current_volume_today, soil_type) ==
    [name |-> name, inout_type |-> inout_type, pos |-> pos, detour |-> detour,
     current_volume_today |-> current_volume_today, soil_type |-> soil_type,
     usage |-> NoStr]

\* two rows of supplier A (the nearer one with the longer road), a small
\* supply B, a demand site, a supply beyond 200 km, a supply whose road is
\* beyond 500 km, a supply that has nothing today
CandRows ==
    {Cand("A", "supply", 400, 1000, 1000, "jeomto"),
     Cand("A", "supply", 1000, 200, 1000, "jeomto"),
     Cand("B", "supply", 1500, 200, 100, "sato"),
     Cand("C", "demand", 100, 50, 1000, "jeomto"),
     Cand("D", "supply", 2500, 100, 1000, "jeomto"),
     Cand("E", "supply", 1900, 3200, 1000, "balpaam"),
     Cand("F", "supply", 1800, 400, 0, "balpaam")}

\* the frames of at most MaxRows rows
MaxRows == 2
ShortCands == UNION {[1..n -> CandRows] : n \in 0..MaxRows}

\* a frame of LongRows suppliers within 200 km, not in the order of their
\* distances, the last of them a second row of the third supplier
LongRows == 12
LongCands ==
    [i \in 1..LongRows |->
        Cand(<<"N", IF i = LongRows THEN 3 ELSE i>>, "supply",
             (((i * 7) % LongRows) + 1) * 50, 100, 1000, "jeomto")]

\* the demand requests: every urgency, usage, soil type and volume; every
\* purpose for a request without a volume; the regions that are too broad;
\* a request for the volume 0
RankDemands ==
    {[Entity("Yecheon-gun", v, s) EXCEPT !.purpose = p, !.urgency = u,
                                         !.usage = g] :
        v \in {NoInt, 500}, s \in {NoStr, "jeomto"}, p \in {NoStr, "nongeop"},
        u \in {NoStr, "gingeup", "geupham", "yeoyu"},
        g \in {NoStr, "maeripyong"}}
    \cup {[Entity("Yecheon-gun", NoInt, "jeomto") EXCEPT !.purpose = p] :
            p \in {"", "jogyeong", "bokgu", "geonseol", "maerip", "doemeugi",
                   "jutaekgeonseol"}}
    \cup {Entity(r, 500, "jeomto") :
            r \in {NoStr, "", "Gyeonggi-do", "Seoul geuncheo"}}
    \cup {Entity("Yecheon-gun", 0, "jeomto")}

LongDemands ==
    {Entity("Yecheon-gun", 500, "jeomto"),
     [Entity("Yecheon-gun", NoInt, "jeomto") EXCEPT !.purpose = "nongeop"],
     [Entity("Yecheon-gun", 500, NoStr) EXCEPT !.urgency = "gingeup"]}

\* the locals of a call of rank_candidates(entities, candidates_df);
\* lookups lists the calls of get_real_distance that the call has made
RankCall(e, candidates) ==
    [pc |-> "rank", entities |-> e, candidates |-> candidates, ref |-> NoInt,
     demand_volume |-> NoInt, applied_defaults |-> <<>>,
     candidates_filtered |-> <<>>, i |-> 0, lookups |-> <<>>, rows |-> <<>>,
     out |-> <<>>, summary |-> <<>>, err |-> NoStr]

\* geocode_user_address up to its request: it raises for a region that is
\* empty or too broad, and sends the request to the address service
GeocodeRequest(k) ==
    IF GeocodeRaises(k.entities.region)
    THEN [k EXCEPT !.pc = "raised", !.err = "ValueError"]
    ELSE [k EXCEPT !.pc = "geocoding"]

\* geocode_user_address after its request: the place of the region when the
\* service answered with documents, the default place when it answered
\* without or the request failed
GeocodeResponse(k, answered) ==
    [k EXCEPT !.pc = "stageA",
              !.ref = IF answered THEN RegionPlace(k.entities.region)
                      ELSE DefaultPlace]

\* the default volume, the Stage A loop, the sort and the cut
FilterNearest(k) ==
    LET d == AppliedDefaults(k.entities.volume_m3, k.entities.purpose)
    IN  [k EXCEPT !.pc = "stageB",
                  !.demand_volume = d.volume,
                  !.applied_defaults = d.notes,
                  !.candidates_filtered =
                      NearestTen(StageAFilter(k.candidates, k.ref, d.volume))]

\* one turn of the Stage B loop up to the request of get_real_distance
DirectionsRequest(k) == [k EXCEPT !.pc = "routing"]

\* the rest of the turn: the distance of get_real_distance, the cut at
\* 500 km, the score and the row
DirectionsResponse(k, answered) ==
    LET c == k.candidates_filtered[k.i + 1]
        real_dist == GetRealDistance(c, answered)
    IN  [k EXCEPT !.pc = "stageB",
                  !.i = k.i + 1,
                  !.lookups = Append(k.lookups,
                                  [idx |-> c.idx, answered |-> answered,
                                   real_dist |-> real_dist]),
                  !.rows = IF real_dist > 5000 THEN k.rows
                           ELSE Append(k.rows,
                                    ScoredRow(c, real_dist, k.entities,
                                              k.demand_volume))]

\* the deduplication, the selection and the summary; sort_values raises
\* KeyError for the frame without columns that no row gives
SelectAndSummarise(k) ==
    LET filtered_rows == Dedup(k.rows)
    IN  IF filtered_rows = <<>>
        THEN [k EXCEPT !.pc = "raised", !.err = "KeyError"]
        ELSE [k EXCEPT !.pc = "returned",
                       !.out = TopThree(filtered_rows),
                       !.summary = Summary(Prefs(k.entities, k.demand_volume),
                                           k.applied_defaults)]

InitRank ==
    /\ InitRest
    /\ rk \in {RankCall(e, c) : e \in RankDemands, c \in ShortCands}
              \cup {RankCall(e, LongCands) : e \in LongDemands}

\* geocode_user_address(entities["region"]) up to requests.get
ResolveRegion ==
    /\ rk.pc = "rank"
    /\ rk' = GeocodeRequest(rk)
    /\ Rest

\* the address service answers, or the request fails; the request has no
\* timeout, so that nothing happens until one of the two does
GeocodeAnswer(answered) ==
    /\ rk.pc = "geocoding"
    /\ rk' = GeocodeResponse(rk, answered)
    /\ Rest

StageA ==
    /\ rk.pc = "stageA"
    /\ rk' = FilterNearest(rk)
    /\ Rest

\* one turn of the Stage B loop: get_real_distance sends its request
StageB ==
    /\ rk.pc = "stageB"
    /\ rk.i < Len(rk.candidates_filtered)
    /\ rk' = DirectionsRequest(rk)
    /\ Rest

\* the directions service answers, with a route or without one, or the
\* request fails
DirectionsAnswer(answered) ==
    /\ rk.pc = "routing"
    /\ rk' = DirectionsResponse(rk, answered)
    /\ Rest

\* the timeout of the request (timeout=5) ends the wait
DirectionsTimeout ==
    /\ rk.pc = "routing"
    /\ rk' = DirectionsResponse(rk, FALSE)
    /\ Rest

Finish ==
    /\ rk.pc = "stageB"
    /\ rk.i = Len(rk.candidates_filtered)
    /\ rk' = SelectAndSummarise(rk)
    /\ Rest

NextRank ==
    \/ ResolveRegion
    \/ \E answered \in BOOLEAN : GeocodeAnswer(answered)
    \/ StageA
    \/ StageB
    \/ \E answered \in BOOLEAN : DirectionsAnswer(answered)
    \/ DirectionsTimeout
    \/ Finish

SpecRank == InitRank /\ [][NextRank]_vars

\* the steps that the interpreter takes by itself, and the timeout of the
\* directions request, happen; an answer of a service may never come
SpecRankFair ==
    /\ SpecRank
    /\ WF_vars(ResolveRegion) /\ WF_vars(StageA) /\ WF_vars(StageB)
    /\ WF_vars(DirectionsTimeout) /\ WF_vars(Finish)

(***************************************************************************)
(* Two request handlers inside rank_candidates at the same time.  thr      *)
(* holds the locals of the call of each handler, and overlapped, which     *)
(* tells that a handler took a step of its call while the call of the      *)
(* other one was in progress.                                              *)
(***************************************************************************)
\* the next step of a call, with the answer of the service it waits for
StepOfCall(k, answered) ==
    CASE k.pc = "rank" -> GeocodeRequest(k)
      [] k.pc = "geocoding" -> GeocodeResponse(k, answered)
      [] k.pc = "stageA" -> FilterNearest(k)
      [] k.pc = "stageB" /\ k.i < Len(k.candidates_filtered) ->
            DirectionsRequest(k)
      [] k.pc = "stageB" /\ k.i = Len(k.candidates_filtered) ->
            SelectAndSummarise(k)
      [] k.pc = "routing" -> DirectionsResponse(k, answered)
      [] OTHER -> k

\* rank_candidates from its start to its end: geo tells whether the address
\* service answered, ans[j] whether the directions service answered the
\* lookup of turn j
RankCandidatesWith(e, candidates, geo, ans) ==
    LET start == GeocodeRequest(RankCall(e, candidates))
        staged == FilterNearest(GeocodeResponse(start, geo))
        F[j \in 0..Len(staged.candidates_filtered)] ==
            IF j = 0 THEN staged
            ELSE DirectionsResponse(DirectionsRequest(F[j - 1]), ans[j])
    IN  IF start.pc = "raised" THEN start
        ELSE SelectAndSummarise(F[Len(staged.candidates_filtered)])

\* the answers of the directions service that a call has received
DirectionsAnswers(k) == [j \in 1..Len(k.lookups) |-> k.lookups[j].answered]

\* a call from its start to its end, alone, with the answers that the
\* finished call k received
RunAlone(k) ==
    RankCandidatesWith(k.entities, k.candidates,
                       k.ref = RegionPlace(k.entities.region),
                       DirectionsAnswers(k))

\* the frames and the requests of the two handlers
ConcCands ==
    {<<Cand("A", "supply", 400, 1000, 1000, "jeomto"),
       Cand("A", "supply", 1000, 200, 1000, "jeomto")>>,
     <<Cand("B", "supply", 1500, 200, 100, "sato"),
       Cand("E", "supply", 1900, 3200, 1000, "balpaam")>>}

ConcDemands ==
    {[Entity("Yecheon-gun", NoInt, "jeomto") EXCEPT !.purpose = "nongeop"],
     [Entity("Yecheon-gun", 500, NoStr) EXCEPT !.urgency = "gingeup"],
     Entity("Gyeonggi-do", 500, "jeomto")}

InFlight(k) == k.pc \notin {"rank", "returned", "raised"}

InitRankConc ==
    /\ cache = <<>>
    /\ max_size = MaxSize
    /\ useCache = TRUE
    /\ now = 0
    /\ last = Call("init", 0, None, NoSweeps, FALSE)
    /\ ret = None
    /\ setAt = [k \in Keys |-> -1]
    /\ req = NoRequest
    /\ rk = NoCall
    /\ thr \in [calls : [Threads -> {RankCall(e, c) : e \in ConcDemands,
                                                     c \in ConcCands}],
                overlapped : {FALSE}]

\* a handler whose Stage B rows are kept in a list that the handlers share
HandlerStepSharedRows(t, answered) ==
    /\ thr.calls[t].pc \notin {"returned", "raised"}
    /\ LET k == StepOfCall(thr.calls[t], answered)
       IN  thr' = [calls |-> [u \in Threads |->
                                 IF u = t THEN k
                                 ELSE [thr.calls[u] EXCEPT !.rows = k.rows]],
                   overlapped |-> thr.overlapped
                                  \/ \E u \in Threads \ {t} :
                                        InFlight(thr.calls[u])]
    /\ UNCHANGED <<cache, max_size, useCache, now, last, ret, setAt, req, rk>>

\* handler t takes the next step of its call of rank_candidates
HandlerStep(t, answered) ==
    /\ thr.calls[t].pc \notin {"returned", "raised"}
    /\ thr' = [calls |-> [thr.calls EXCEPT ![t] = StepOfCall(@, answered)],
               overlapped |-> thr.overlapped
                              \/ \E u \in Threads \ {t} :
                                    InFlight(thr.calls[u])]
    /\ UNCHANGED <<cache, max_size, useCache, now, last, ret, setAt, req, rk>>

NextRankConc == \E t \in Threads : \E answered \in BOOLEAN :
                    HandlerStep(t, answered)

SpecRankConc == InitRankConc /\ [][NextRankConc]_vars

(***************************************************************************)
(* The matching step of /ask (src/app.py 131-246) with the ranking that it *)
(* runs: the candidates are fetched, the result is looked up in the cache, *)
(* computed and stored on a miss, and the response is built.  The request  *)
(* is given as its interpreted entities.                                   *)
(***************************************************************************)
MatchEnts ==
    {[Entity("Yecheon-gun", NoInt, "jeomto") EXCEPT !.purpose = "nongeop"],
     Entity("Gyeonggi-do", 500, "jeomto")}

\* what query_candidates_by_conditions and load_candidates give
MatchQueries ==
    {Fetched(<<>>), FetchFailed,
     Fetched(<<Cand("A", "supply", 400, 1000, 1000, "jeomto")>>)}

MatchLoads ==
    {FetchFailed,
     Fetched(<<Cand("E", "supply", 1900, 3200, 1000, "balpaam")>>)}

MatchFrames == {f.rows : f \in {g \in MatchQueries \cup MatchLoads : g.ok}}

\* the matching keys of the requests and frames, computed once
MatchKeyTable ==
    [e \in MatchEnts |-> [c \in MatchFrames |-> MatchKey(ModelDump(e), c)]]

\* what rank_candidates does for each request, frame and behaviour of the
\* two services, computed once
MatchRuns ==
    [e \in MatchEnts |-> [c \in MatchFrames |-> [geo \in BOOLEAN |->
        [answered \in BOOLEAN |->
            RankCandidatesWith(e, c, geo,
                               [j \in 1..Len(c) |-> answered])]]]]

\* a matching step that also stores what a call that raised has left
MatchStoreAlways(c, m, key, k, t, enabled) ==
    SetStore(c, m, key, [out |-> k.out, summary |-> k.summary], t, enabled)

\* the store after a miss: cache_matching_result runs when rank_candidates
\* has returned, and is skipped when it has raised
MatchStore(c, m, key, k, t, enabled) ==
    IF k.pc = "returned"
    THEN SetStore(c, m, key, [out |-> k.out, summary |-> k.summary], t,
                  enabled)
    ELSE c

\* the responses of the matching step
TableResponse(results_df, summary, applied_defaults) ==
    IF results_df = <<>> THEN [kind |-> "empty"]
    ELSE [kind |-> "table", table |-> results_df, summary |-> summary,
          applied_defaults |-> applied_defaults]

ErrorResponse(err) ==
    IF err = "ValueError" THEN [kind |-> "ambiguous"] ELSE [kind |-> "error"]

InitMatch ==
    /\ cache = <<>>
    /\ max_size = MaxSize
    /\ useCache = TRUE
    /\ now = 0
    /\ last = Call("init", 0, None, NoSweeps, FALSE)
    /\ ret = None
    /\ setAt = <<>>
    /\ thr = NoThreads
    /\ req = NoRequest
    /\ rk = NoCall

\* the matching step for the entities e: q and l are what the repository
\* gives, geo and answered what the address and directions services do
AskMatching(e, q, l, geo, answered) ==
    /\ LET f == FetchCandidates(q, l)
           candidates == f.rows
           key == MatchKeyTable[e][candidates]
           cached_matching == GetValue(cache, key, now, useCache)
           c1 == GetStore(cache, key, now, useCache)
           hit == cached_matching # None
           k == MatchRuns[e][candidates][geo][answered]
       IN  IF ~f.ok
           THEN /\ ret' = ErrorResponse("Exception")
                /\ last' = [op |-> "match", entities |-> e, q |-> q, l |-> l,
                            fetched |-> FALSE, candidates |-> <<>>,
                            key |-> 0, hit |-> FALSE, ranked |-> FALSE,
                            raised |-> FALSE]
                /\ UNCHANGED cache
           ELSE /\ cache' = IF hit THEN c1
                            ELSE MatchStore(c1, max_size, key, k, now, useCache)
                /\ ret' = IF hit
                          THEN TableResponse(cached_matching.out,
                                             cached_matching.summary, <<>>)
                          ELSE IF k.pc = "raised" THEN ErrorResponse(k.err)
                          ELSE TableResponse(k.out, k.summary,
                                             k.applied_defaults)
                /\ last' = [op |-> "match", entities |-> e, q |-> q, l |-> l,
                            fetched |-> TRUE, candidates |-> candidates,
                            key |-> key, hit |-> hit, ranked |-> ~hit,
                            raised |-> ~hit /\ k.pc = "raised"]
    /\ UNCHANGED <<max_size, useCache, now, setAt, thr, req, rk>>

NextMatch ==
    \/ \E e \in MatchEnts : \E q \in MatchQueries : \E l \in MatchLoads :
          \E geo \in BOOLEAN : \E answered \in BOOLEAN :
             AskMatching(e, q, l, geo, answered)
    \/ Tick

SpecMatch == InitMatch /\ [][NextMatch]_vars


\* a dict as the set of its key/value pairs, the inner dict entities too
PairSet(d) ==
    {IF d[i][1] = "entities"
     THEN <<d[i][1], {d[i][2][j] : j \in 1..Len(d[i][2])}>>
     ELSE d[i] : i \in 1..Len(d)}

\* the dict entities of a dict that cache_matching_result hashes
EntitiesOf(d) ==
    LET i == CHOOSE i \in 1..Len(d) : d[i][1] = "entities"
    IN  {d[i][2][j] : j \in 1..Len(d[i][2])}

\* C11: two dicts with the same key/value pairs at every level, whatever
\* their insertion orders, get the same key from _generate_key, and two
\* dicts of the matching cache whose entities differ in a field get
\* different keys.
C11_KeyOrderIndependent ==
    rk.pc = "keyed" =>
        /\ PairSet(rk.a) = PairSet(rk.b) => rk.ka = rk.kb
        /\ EntitiesOf(rk.a) # EntitiesOf(rk.b) => rk.ka # rk.kb

\* C11 witness: two dicts built in different insertion orders, equal as
\* dicts, were given the same key.
C11_Witness ==
    /\ rk.pc = "keyed" /\ rk.a # rk.b
    /\ rk.a[1][1] = "entities" /\ rk.b[1][1] = "entities"
    /\ rk.a[1][2] # rk.b[1][2]
    /\ PairSet(rk.a) = PairSet(rk.b) /\ rk.ka = rk.kb

\* C13: a call of score_candidate with supply_volume < demand_volume returns
\* exactly 0, whatever its other arguments.
C13_VolumeGate ==
    (rk.pc = "scored" /\ rk.supply_volume < rk.demand_volume)
      => rk.s1 = 0 /\ rk.s2 = 0

\* C13 witness: a call below the volume gate, at distance 0 with equal soils,
\* the urgency bonus and no penalty, has returned 0.
C13_Witness ==
    /\ rk.pc = "scored" /\ rk.supply_volume < rk.demand_volume
    /\ rk.d1 = 0 /\ rk.supply_soil = rk.demand_soil /\ rk.supply_soil # NoStr
    /\ rk.urgency = "gingeup" /\ rk.access_ok /\ ~rk.deadline_penalty
    /\ rk.s1 = 0

\* C14: for two calls of score_candidate that pass the volume gate and differ
\* in the distance only, the nearer one does not score lower, and 40 km
\* scores strictly higher than 180 km.
C14_DistanceMonotone ==
    (rk.pc = "scored" /\ rk.supply_volume >= rk.demand_volume
       /\ rk.d1 # NoInt /\ rk.d2 # NoInt)
      => /\ rk.d1 <= rk.d2 => rk.s1 >= rk.s2
         /\ (rk.d1 = 400 /\ rk.d2 = 1800) => rk.s1 > rk.s2

\* C14 witness: the request of 500 with soil jeomto against a supply of 1000
\* of the same soil, scored at 40 km and at 180 km.
C14_Witness ==
    /\ rk.pc = "scored" /\ rk.d1 = 400 /\ rk.d2 = 1800
    /\ rk.supply_volume = 1000 /\ rk.demand_volume = 500
    /\ rk.supply_soil = "jeomto" /\ rk.demand_soil = "jeomto"
    /\ rk.s1 > rk.s2

\* a call of rank_candidates, at any of its steps
InRank ==
    rk.pc \in {"rank", "geocoding", "stageA", "stageB", "routing", "returned",
               "raised"}

\* the scores of the Stage B rows of a name
ScoresOf(name) == {rk.rows[i].score : i \in {j \in 1..Len(rk.rows) :
                                               rk.rows[j].name = name}}

\* C12: a call whose region resolves and whose Stage B keeps no row (the
\* frame is empty, or no candidate passes the filters) returns the empty
\* list and does not raise.
C12_EmptyResultReturned ==
    (rk.pc \in {"returned", "raised"} /\ rk.err # "ValueError"
       /\ rk.rows = <<>>)
      => rk.pc = "returned" /\ rk.out = <<>>

\* C15: no two rows of the returned list share a name, every returned row is
\* a Stage B row, and no Stage B row of the same name has a higher score.
C15_BestRowPerName ==
    rk.pc = "returned" =>
        /\ \A i, j \in 1..Len(rk.out) :
              rk.out[i].name = rk.out[j].name => i = j
        /\ \A i \in 1..Len(rk.out) :
              /\ \E j \in 1..Len(rk.rows) : rk.rows[j] = rk.out[i]
              /\ \A x \in ScoresOf(rk.out[i].name) : x <= rk.out[i].score

\* C15 witness: the second of two Stage B rows of one name has the higher
\* score and is the row returned for the name.
C15_Witness ==
    /\ rk.pc = "returned" /\ Len(rk.rows) = 2 /\ Len(rk.out) = 1
    /\ rk.rows[1].name = rk.rows[2].name
    /\ rk.rows[1].score < rk.rows[2].score
    /\ rk.out[1] = rk.rows[2]

\* C16: the returned list has at most 3 rows, is in descending order of the
\* score, and no name left out of it has a Stage B row with a score above
\* that of a returned row.
C16_TopThree ==
    rk.pc = "returned" =>
        LET names == {rk.rows[i].name : i \in 1..Len(rk.rows)}
            shown == {rk.out[i].name : i \in 1..Len(rk.out)}
        IN  /\ Len(rk.out) = Min(3, Cardinality(names))
            /\ \A i \in 1..(Len(rk.out) - 1) :
                  rk.out[i].score >= rk.out[i + 1].score
            /\ \A n \in names \ shown : \A x \in ScoresOf(n) :
                  \A i \in 1..Len(rk.out) : x <= rk.out[i].score

\* C16 witness: three rows were returned out of more than three names, and
\* a name left out has a lower score than the last returned row.
C16_Witness ==
    /\ rk.pc = "returned" /\ Len(rk.out) = 3
    /\ Cardinality({rk.rows[i].name : i \in 1..Len(rk.rows)}) > 3
    /\ rk.out[1].score > rk.out[3].score
    /\ \E i \in 1..Len(rk.rows) : rk.rows[i].score < rk.out[3].score

\* C17: a call makes at most 10 real-distance lookups, for the Stage A
\* survivors of the smallest straight-line distances: as many as there are
\* survivors up to 10, and no survivor that is cut off is nearer than one
\* that is looked up.
C17_NearestTenOnly ==
    (InRank /\ rk.pc \notin {"rank", "geocoding", "stageA"} /\ rk.err # "ValueError") =>
        LET S == StageAFilter(rk.candidates, rk.ref, rk.demand_volume)
            cf == rk.candidates_filtered
            E == {cf[i].idx : i \in 1..Len(cf)}
        IN  /\ rk.i <= Len(cf) /\ Len(cf) = Min(10, Len(S))
            /\ Cardinality(E) = Len(cf)
            /\ E \subseteq {S[i].idx : i \in 1..Len(S)}
            /\ \A i \in 1..Len(S) : S[i].idx \notin E =>
                  \A j \in 1..Len(cf) : cf[j].straight <= S[i].straight

\* C17 witness: a call on more than 10 survivors has made 10 lookups and
\* returned.
C17_Witness ==
    /\ rk.pc = "returned" /\ rk.i = 10
    /\ Len(StageAFilter(rk.candidates, rk.ref, rk.demand_volume)) > 10

\* the table of the default volumes
TableVolume(purpose) ==
    CASE purpose = "nongeop" -> 30
      [] purpose = "jogyeong" -> 20
      [] purpose \in {"bokgu", "doemeugi", "hacheonjeongbi",
                      "sansataebokgu"} -> 100
      [] OTHER -> 200

\* C18: a call for a request without a volume uses the default of the table
\* for the purpose of the request (30 for agriculture, 200 for a purpose
\* that is missing or not in the table): Stage A keeps only rows of at least
\* that volume, Stage B scores with it, and applied_defaults holds exactly
\* one note, which names it.
C18_DefaultVolume ==
    (InRank /\ rk.pc \notin {"rank", "geocoding", "stageA"} /\ rk.err # "ValueError"
       /\ rk.entities.volume_m3 = NoInt) =>
        LET v == TableVolume(rk.entities.purpose)
            e == rk.entities
        IN  /\ rk.demand_volume = v
            /\ e.purpose = "nongeop" => v = 30
            /\ Len(rk.applied_defaults) = 1
            /\ rk.applied_defaults[1][2] = v
            /\ \A i \in 1..Len(rk.candidates_filtered) :
                  rk.candidates_filtered[i].row.current_volume_today >= v
            /\ \A i \in 1..Len(rk.rows) :
                  rk.rows[i].score =
                      Round1(ScoreCandidate(rk.rows[i].distance_km,
                                 rk.rows[i].current_capacity_m3, v,
                                 rk.rows[i].soil_type, e.soil_type, TRUE,
                                 FALSE, e.purpose, e.urgency, e.usage))

\* C18 witness: a request for agriculture without a volume was answered with
\* the note of 30 and with a supplier of less than 200.
C18_Witness ==
    /\ rk.pc = "returned" /\ rk.entities.volume_m3 = NoInt
    /\ rk.entities.purpose = "nongeop"
    /\ rk.applied_defaults = << <<"default volume", 30, "nongeop">> >>
    /\ \E i \in 1..Len(rk.out) : rk.out[i].current_capacity_m3 < 200

\* C19 (as stated): the returned summary never has more than 3 strings.
C19_SummaryAtMostThree == rk.pc = "returned" => Len(rk.summary) <= 3

\* C19 (amended): the returned summary has 3 rationale strings, and in front
\* of them the note of the applied defaults when a default volume was
\* substituted: 4 strings then, never more.
C19_SummaryThreePlusNote ==
    rk.pc = "returned" =>
        /\ Len(rk.applied_defaults) <= 1
        /\ Len(rk.summary) = 3 + Len(rk.applied_defaults)
        /\ rk.applied_defaults # <<>> =>
              rk.summary[1] = <<"applied defaults", rk.applied_defaults>>
        /\ \A i \in 1..3 :
              rk.summary[Len(rk.applied_defaults) + i] =
                  Prefs(rk.entities, rk.demand_volume)[i]

\* C19 witness: a summary of 4 strings was returned for a request without a
\* volume, with an urgency and a usage.
C19_Witness ==
    /\ rk.pc = "returned" /\ Len(rk.summary) = 4
    /\ rk.entities.urgency = "gingeup" /\ rk.entities.usage = "maeripyong"

\* C20: a call whose region is empty or one of the broad names raises
\* ValueError at once: it resolves no place, keeps no candidate, makes no
\* lookup and returns nothing.
C20_AmbiguousRegionRaises ==
    (InRank /\ rk.entities.region \in {NoStr, ""} \cup BroadRegions) =>
        /\ rk.pc \in {"rank", "raised"}
        /\ rk.pc = "raised" => rk.err = "ValueError"
        /\ rk.ref = NoInt /\ rk.i = 0
        /\ rk.candidates_filtered = <<>> /\ rk.rows = <<>> /\ rk.out = <<>>

\* C20 witness: a call for a province has raised, over a frame with a
\* supplier that a resolved region would have ranked.
C20_Witness ==
    /\ rk.pc = "raised" /\ rk.err = "ValueError"
    /\ rk.entities.region = "Gyeonggi-do"
    /\ \E i \in 1..Len(rk.candidates) :
          /\ rk.candidates[i].inout_type = "supply"
          /\ rk.candidates[i].pos <= 2000
          /\ rk.candidates[i].current_volume_today >= 500

\* a call of rank_candidates that has passed Stage A
PastStageA ==
    /\ InRank
    /\ rk.pc \notin {"rank", "geocoding", "stageA"}
    /\ rk.err # "ValueError"

\* C21: the turns of Stage B made so far have each called the directions
\* service once, for the candidates in their order; a lookup that was not
\* answered with a route uses 1.4 times the straight-line distance and, if
\* that is at most 500 km, gives a row; the call does not raise while
\* candidates remain, and it ends only after the last of them.
C21_OneAttemptThenEstimate ==
    PastStageA =>
        LET cf == rk.candidates_filtered
        IN  /\ Len(rk.lookups) = rk.i /\ rk.i <= Len(cf)
            /\ \A j \in 1..Len(rk.lookups) :
                  LET l == rk.lookups[j]
                  IN  /\ l.idx = cf[j].idx
                      /\ ~l.answered =>
                            /\ 10 * l.real_dist = 14 * cf[j].straight
                            /\ l.real_dist <= 5000 =>
                                  \E n \in 1..Len(rk.rows) :
                                      /\ rk.rows[n].idx = l.idx
                                      /\ rk.rows[n].distance_km = l.real_dist
            /\ rk.i < Len(cf) => rk.err = NoStr /\ rk.pc \in {"stageB", "routing"}
            /\ rk.pc = "raised" => rk.err = "KeyError" /\ rk.rows = <<>>

\* C21 witness: a call has returned after a lookup that failed and a later
\* one that was answered, with a row for each of the two candidates.
C21_Witness ==
    /\ rk.pc = "returned" /\ Len(rk.lookups) = 2 /\ Len(rk.rows) = 2
    /\ ~rk.lookups[1].answered /\ rk.lookups[2].answered
    /\ rk.lookups[1].real_dist > rk.candidates_filtered[1].straight

\* C22: every call of rank_candidates eventually returns or raises, even if
\* a service never answers.
C22_AlwaysTerminates == <>(rk.pc \in {"returned", "raised"})

\* C26: for two supply volumes that both pass the volume gate of an
\* otherwise equal call, both 0 included, the volume term is 1.0 and the two
\* scores are equal.
C26_SameScoreAboveGate ==
    (rk.pc = "scored" /\ rk.supply_volume >= rk.demand_volume
       /\ rk.supply_volume2 >= rk.demand_volume) =>
        /\ VolumeFitScore(rk.supply_volume, rk.demand_volume) = 2000
        /\ VolumeFitScore(rk.supply_volume2, rk.demand_volume) = 2000
        /\ rk.s1 = rk.s3

\* C26, for a requested volume above 0: the volume term is 1.0 and the two
\* scores are equal.
C26_SameScoreAbovePositiveGate ==
    (rk.pc = "scored" /\ rk.demand_volume > 0
       /\ rk.supply_volume >= rk.demand_volume
       /\ rk.supply_volume2 >= rk.demand_volume) =>
        /\ VolumeFitScore(rk.supply_volume, rk.demand_volume) = 2000
        /\ VolumeFitScore(rk.supply_volume2, rk.demand_volume) = 2000
        /\ rk.s1 = rk.s3

\* C27: a set (by itself or in get_or_set) that finds fewer than max_size
\* entries that are not expired keeps every one of them, except that it
\* replaces the entry of its own key.
C27_NoEvictionAfterPurge ==
    [][(last'.op \in {"set", "get_or_set"} /\ useCache) =>
         LET live == {e \in Entries(cache) : now - e.timestamp <= Duration}
         IN  Cardinality(live) < max_size =>
                \A e \in live : e.key # last'.key => e \in Entries(cache')]_vars

\* C27 witness: a set has found the large store full, purged its one expired
\* entry and removed none of the others.
C27_Witness ==
    /\ last.op = "set" /\ max_size = BigSize
    /\ last.purged = 1 /\ last.purged + last.n >= max_size
    /\ last.n >= 1 /\ last.n < max_size
    /\ last.removed = {}
    /\ Len(cache) = last.n + 1

\* the volume that a call ranks with: the requested one, or the default
RankVolume(e) ==
    IF e.volume_m3 = NoInt THEN TableVolume(e.purpose) ELSE e.volume_m3

\* C25: every returned row is the row of a candidate of the frame that is a
\* supply, lies at most 200 km from the reference place in a straight line
\* and has at least the requested (or default) volume today, and its
\* distance, the road distance or 1.4 times the straight line, is at most
\* 500 km.
C25_RowsPassedFilters ==
    rk.pc = "returned" =>
        \A i \in 1..Len(rk.out) :
            LET r == rk.out[i]
                c == rk.candidates[r.idx]
                straight == IF c.pos >= rk.ref THEN c.pos - rk.ref
                            ELSE rk.ref - c.pos
            IN  /\ r.idx \in 1..Len(rk.candidates)
                /\ r.name = c.name
                /\ c.inout_type = "supply"
                /\ straight <= 2000
                /\ c.current_volume_today >= RankVolume(rk.entities)
                /\ r.current_capacity_m3 = c.current_volume_today
                /\ r.distance_km <= 5000
                /\ \/ r.distance_km = straight + c.detour
                   \/ 10 * r.distance_km = 14 * straight

\* C25 witness: a call has returned one row from a frame of a supplier and
\* a candidate that Stage A or the cut at 500 km refuses.
C25_Witness ==
    /\ rk.pc = "returned" /\ Len(rk.candidates) = 2 /\ Len(rk.out) = 1
    /\ \E j \in 1..2 :
          \/ rk.candidates[j].inout_type = "demand"
          \/ rk.candidates[j].pos - rk.ref > 2000
          \/ rk.candidates[j].current_volume_today < rk.demand_volume
          \/ \E n \in 1..Len(rk.lookups) :
                rk.lookups[n].idx = j /\ rk.lookups[n].real_dist > 5000

\* C30: every row that Stage B has built, and so every returned row, has a
\* score above 0.
C30_PositiveScore ==
    PastStageA =>
        /\ \A i \in 1..Len(rk.rows) : rk.rows[i].score > 0
        /\ \A i \in 1..Len(rk.out) : rk.out[i].score > 0

\* C30 witness: a returned row is the row of a supplier that has exactly the
\* requested volume today.
C30_Witness ==
    /\ rk.pc = "returned"
    /\ \E i \in 1..Len(rk.out) :
          /\ rk.out[i].current_capacity_m3 = rk.demand_volume
          /\ rk.out[i].score > 0

Narrowed == last.q.ok /\ Len(last.q.rows) >= 1

FreshResponses ==
    {TableResponse(k.out, k.summary, k.applied_defaults) :
        k \in {r \in {MatchRuns[last.entities][last.candidates][geo][answered] :
                          geo \in BOOLEAN, answered \in BOOLEAN} :
                  r.pc = "returned"}}

\* C28 (as stated): the response of a matching step that was served from the
\* cache is a response that a fresh rank_candidates computation gives for
\* the same request and candidates: same table, same summary, same
\* applied-defaults notes.
C28_HitSameAsFresh ==
    (last.op = "match" /\ last.hit) => ret \in FreshResponses

\* C28 (table and summary only): the response served from the cache has the
\* table and the summary of a fresh computation for the same request and
\* candidates.
C28_HitSameTableAndSummary ==
    (last.op = "match" /\ last.hit) =>
        \E f \in FreshResponses :
            /\ f.kind = ret.kind
            /\ f.table = ret.table
            /\ f.summary = ret.summary

\* a request without a volume is served from the cache
C28_HitWithDefault ==
    /\ last.op = "match"
    /\ last.hit
    /\ last.entities.volume_m3 = NoInt
    /\ ret.kind = "table"

====
